---- MODULE Spec2Model ----
(***************************************************************************)
(* Model of src/src/analysis.py: the order-cleaning pipeline               *)
(*   load_orders -> clean_orders_data (-> adjust_shipping_dates)           *)
(*   -> to_csv -> compute_kpis -> create_visuals.                          *)
(*                                                                         *)
(* Representation.                                                         *)
(*  - A calendar date is an integer day number (day 0 = 2024-01-01, so     *)
(*    2023-12-30 is -2); whole-day differences are integer differences.    *)
(*  - A cell is a record [na, v]: na = TRUE is pandas' missing marker      *)
(*    (NaT / NaN), otherwise v is the value.                               *)
(*  - total_cycle and median_cycle are floats in the code (a median of an  *)
(*    even count can end in .5); they are kept here as TWICE their value,  *)
(*    which is exact, and every comparison doubles its threshold.          *)
(*  - A string is a sequence of atoms: a header is a sequence of tokens    *)
(*    (" " is one whitespace character, any other token is a run of        *)
(*    non-whitespace characters); a status is a sequence of characters.    *)
(*  - A table df is [columns: sequence of headers, rows: sequence of       *)
(*    records]; the cell of a column that the table lacks is NA and is     *)
(*    never read.                                                          *)
(***************************************************************************)
EXTENDS Integers, Sequences, FiniteSets

VARIABLES
    pc,                  \* position of the run / of the function under check
    df_orders_raw,       \* main: df_orders_raw, the table load_orders returned
    df_orders,           \* main: df_orders, the table clean_orders_data returned
    saved,               \* main: whether cleaned_merged_data.csv was written
    kpis,                \* main: keys of the mapping compute_kpis returned
    visuals,             \* files written under VISUALS_DIR
    err,                 \* the exception that ended the run, or "none"
    adj_in,              \* adjust_shipping_dates: its argument df
    adj_out,             \* adjust_shipping_dates: the table it returned
    total_cycle,         \* adjust_shipping_dates: total_cycle after line 59 (doubled)
    dispatch_delay_days  \* adjust_shipping_dates: result of np.select, line 61

vars == <<pc, df_orders_raw, df_orders, saved, kpis, visuals, err,
          adj_in, adj_out, total_cycle, dispatch_delay_days>>

----------------------------------------------------------------------------
(* Bounds of the model *)

\* Largest number of rows of a table passed to adjust_shipping_dates.
MaxRows == 3

\* Largest number of rows of a loaded table whose rows vary.
MaxLoadedRows == 2

----------------------------------------------------------------------------
(* Cells *)

NA == [na |-> TRUE, v |-> 0]

Val(x) == [na |-> FALSE, v |-> x]

Range(s) == {s[i] : i \in 1..Len(s)}

Col(name) == <<name>>

HasColumn(df, name) == \E i \in 1..Len(df.columns) : df.columns[i] = Col(name)

----------------------------------------------------------------------------
(* adjust_shipping_dates, lines 37-78 *)

\* Mutant of Mask: "|" written for "&", so a row with one date counts.
MaskEitherDate(df) ==
    {i \in 1..Len(df.rows) :
        ~df.rows[i].order_date.na \/ ~df.rows[i].delivery_date.na}

\* line 54: mask = order_date.notna() & delivery_date.notna(), as the set of
\* row positions where it is True.
Mask(df) ==
    {i \in 1..Len(df.rows) :
        ~df.rows[i].order_date.na /\ ~df.rows[i].delivery_date.na}

\* line 55: (delivery_date - order_date).dt.days of one masked row.
RawCycle(r) == r.delivery_date.v - r.order_date.v

\* The k-th smallest (1-based) of the values f[i], i \in S, counted with
\* multiplicity.
KthSmallest(f, S, k) ==
    CHOOSE x \in {f[i] : i \in S} :
        /\ Cardinality({i \in S : f[i] < x}) < k
        /\ k <= Cardinality({i \in S : f[i] <= x})

\* Series.median(): NaN on an empty series, the middle value of an odd count,
\* the mean of the two middle values of an even count.  Returned doubled.
Median2(f, S) ==
    LET n == Cardinality(S) IN
    IF n = 0 THEN NA
    ELSE IF n % 2 = 1 THEN Val(2 * KthSmallest(f, S, (n + 1) \div 2))
    ELSE Val(KthSmallest(f, S, n \div 2) + KthSmallest(f, S, n \div 2 + 1))

\* line 58: median_cycle = total_cycle[total_cycle >= 0].median()  (doubled)
MedianCycle(df) ==
    LET raw == [i \in Mask(df) |-> RawCycle(df.rows[i])] IN
    Median2(raw, {i \in Mask(df) : raw[i] >= 0})

\* line 59: total_cycle.where(total_cycle >= 0, median_cycle)  (doubled)
ImputedCycle(df) ==
    [i \in Mask(df) |->
        IF RawCycle(df.rows[i]) >= 0 THEN Val(2 * RawCycle(df.rows[i]))
        ELSE MedianCycle(df)]

\* A comparison with NaN is False.
LeqDays(c, days) == ~c.na /\ c.v <= 2 * days

GtDays(c, days) == ~c.na /\ c.v > 2 * days

\* Mutant of DispatchDelay: the choice list written in reverse, [3, 1, 0].
DispatchDelayReversed(c) ==
    IF LeqDays(c, 4) THEN 3
    ELSE IF GtDays(c, 4) /\ LeqDays(c, 8) THEN 1
    ELSE IF GtDays(c, 8) THEN 0
    ELSE 1

\* lines 61-69: np.select([c <= 4, (c > 4) & (c <= 8), c > 8], [0, 1, 3],
\* default=1) on one value: the first condition that is True picks the choice.
DispatchDelay(c) ==
    IF LeqDays(c, 4) THEN 0
    ELSE IF GtDays(c, 4) /\ LeqDays(c, 8) THEN 1
    ELSE IF GtDays(c, 8) THEN 3
    ELSE 1

\* Mutant of SetShipDate: the delay subtracted from order_date.
SetShipDateBackwards(df, delay) ==
    [df EXCEPT !.rows =
        [i \in 1..Len(df.rows) |->
            IF i \in Mask(df)
            THEN [df.rows[i] EXCEPT !.ship_date = Val(df.rows[i].order_date.v - delay[i])]
            ELSE df.rows[i]]]

\* line 73: df.loc[mask, "ship_date"] = df.loc[mask, "order_date"] + dispatch_delay
SetShipDate(df, delay) ==
    [df EXCEPT !.rows =
        [i \in 1..Len(df.rows) |->
            IF i \in Mask(df)
            THEN [df.rows[i] EXCEPT !.ship_date = Val(df.rows[i].order_date.v + delay[i])]
            ELSE df.rows[i]]]

\* Mutant of SetDeliveryDays: the difference taken from order_date, not from
\* the new ship_date.
SetDeliveryDaysFromOrderDate(df) ==
    [df EXCEPT !.rows =
        [i \in 1..Len(df.rows) |->
            IF i \in Mask(df)
            THEN [df.rows[i] EXCEPT
                    !.delivery_days = Val(df.rows[i].delivery_date.v - df.rows[i].order_date.v)]
            ELSE df.rows[i]]]

\* lines 74-76: df.loc[mask, "delivery_days"] =
\*                  (df.loc[mask, "delivery_date"] - df.loc[mask, "ship_date"]).dt.days
SetDeliveryDays(df) ==
    [df EXCEPT !.rows =
        [i \in 1..Len(df.rows) |->
            IF i \in Mask(df)
            THEN [df.rows[i] EXCEPT
                    !.delivery_days = Val(df.rows[i].delivery_date.v - df.rows[i].ship_date.v)]
            ELSE df.rows[i]]]

\* lines 61-71 for the whole series.
DispatchDelayDays(df) == [i \in Mask(df) |-> DispatchDelay(ImputedCycle(df)[i])]

\* line 51: the early return when a date column is absent.
DatesPresent(df) == HasColumn(df, "order_date") /\ HasColumn(df, "delivery_date")

\* The whole function: the table it returns.
AdjustShippingDates(df) ==
    IF ~DatesPresent(df) THEN df
    ELSE SetDeliveryDays(SetShipDate(df, DispatchDelayDays(df)))

----------------------------------------------------------------------------
(* Inputs of adjust_shipping_dates *)

\* Parsed order dates and delivery dates of a row: missing, or a day number.
\* The cycles they give are -3, -2, 1, 2, 5, 6, 8 and 9 days.
OrderDates == {NA, Val(0), Val(1)}

DeliveryDates == {NA, Val(-2), Val(2), Val(6), Val(9)}

\* ship_date and delivery_days a row holds before the call: both missing, or
\* both set.
OldShipAndDays == {<<NA, NA>>, <<Val(1), Val(7)>>}

AdjRows ==
    {[order_date |-> o, delivery_date |-> d, ship_date |-> p[1], delivery_days |-> p[2]] :
        o \in OrderDates, d \in DeliveryDates, p \in OldShipAndDays}

\* The date columns the argument has: both, one, or none.
AdjColumns ==
    {<<Col("order_date"), Col("ship_date"), Col("delivery_date"), Col("delivery_days")>>,
     <<Col("ship_date"), Col("delivery_date"), Col("delivery_days")>>,
     <<Col("order_date"), Col("ship_date"), Col("delivery_days")>>,
     <<Col("ship_date"), Col("delivery_days")>>}

\* A row of a table with the columns cols: the cells of absent columns are NA.
BlankAbsent(r, cols) ==
    [r EXCEPT !.order_date = IF Col("order_date") \in Range(cols) THEN @ ELSE NA,
              !.delivery_date = IF Col("delivery_date") \in Range(cols) THEN @ ELSE NA]

RowSeqs(S, n) == UNION {[1..k -> S] : k \in 0..n}

EmptyTable == [columns |-> <<>>, rows |-> <<>>]

NoSeries == [i \in {} |-> NA]

InitAdjust ==
    /\ pc = "adjust_call"
    /\ \E cols \in AdjColumns :
          \E rows \in RowSeqs({BlankAbsent(r, cols) : r \in AdjRows}, MaxRows) :
             adj_in = [columns |-> cols, rows |-> rows]
    /\ adj_out = EmptyTable
    /\ total_cycle = NoSeries
    /\ dispatch_delay_days = NoSeries
    /\ df_orders_raw = EmptyTable
    /\ df_orders = EmptyTable
    /\ saved = FALSE
    /\ kpis = {}
    /\ visuals = {}
    /\ err = "none"

\* One call of adjust_shipping_dates(adj_in), lines 49-78.
AdjustCall ==
    /\ pc = "adjust_call"
    /\ adj_out' = AdjustShippingDates(adj_in)
    /\ total_cycle' = IF DatesPresent(adj_in) THEN ImputedCycle(adj_in) ELSE NoSeries
    /\ dispatch_delay_days' =
          IF DatesPresent(adj_in) THEN DispatchDelayDays(adj_in) ELSE NoSeries
    /\ pc' = "adjust_return"
    /\ UNCHANGED <<adj_in, df_orders_raw, df_orders, saved, kpis, visuals, err>>

NextAdjust == AdjustCall

SpecAdjust == InitAdjust /\ [][NextAdjust]_vars

----------------------------------------------------------------------------
(* clean_orders_data, lines 81-119: column standardization *)

IsSpace(t) == t \in {" ", "\t"}

RECURSIVE LStrip(_)
LStrip(h) == IF h # <<>> /\ IsSpace(Head(h)) THEN LStrip(Tail(h)) ELSE h

RECURSIVE RStrip(_)
RStrip(h) ==
    IF h # <<>> /\ IsSpace(h[Len(h)]) THEN RStrip(SubSeq(h, 1, Len(h) - 1)) ELSE h

\* Mutant of Strip: only one character taken off each end.
StripOneCharacter(h) ==
    LET a == IF h # <<>> /\ IsSpace(Head(h)) THEN Tail(h) ELSE h IN
    IF a # <<>> /\ IsSpace(a[Len(a)]) THEN SubSeq(a, 1, Len(a) - 1) ELSE a

\* line 86: c.strip()
Strip(h) == RStrip(LStrip(h))

\* lines 88-99: rename_map
rename_map ==
    [c \in {"Order_ID", "Customer_Region", "Product_Category", "Order_Date", "Ship_Date",
            "Delivery_Date", "Shipping_Mode", "Shipping_Cost", "Delivery_Status",
            "Delivery_Days"} |->
        CASE c = "Order_ID" -> "order_id"
          [] c = "Customer_Region" -> "customer_region"
          [] c = "Product_Category" -> "product_category"
          [] c = "Order_Date" -> "order_date"
          [] c = "Ship_Date" -> "ship_date"
          [] c = "Delivery_Date" -> "delivery_date"
          [] c = "Shipping_Mode" -> "shipping_mode"
          [] c = "Shipping_Cost" -> "shipping_cost"
          [] c = "Delivery_Status" -> "delivery_status"
          [] c = "Delivery_Days" -> "delivery_days"]

\* line 100: df.rename(columns=rename_map) on one header: a header that is
\* exactly a key of rename_map is replaced, any other is kept.
Rename(h) ==
    IF Len(h) = 1 /\ h[1] \in DOMAIN rename_map THEN Col(rename_map[h[1]]) ELSE h

\* lines 86-100 on the header list.
StandardizeColumns(columns) ==
    [i \in 1..Len(columns) |-> Rename(Strip(columns[i]))]

----------------------------------------------------------------------------
(* clean_orders_data: dates, flags, delivery_days *)

\* A raw date cell is [kind, v]: "date" is a text that parses to day v,
\* "junk" a text that does not parse, "empty" an empty cell.
RawDate(d) == [kind |-> "date", v |-> d]

RawJunk == [kind |-> "junk", v |-> 0]

RawEmpty == [kind |-> "empty", v |-> 0]

\* line 104: pd.to_datetime(cell, errors="coerce")
ToDatetime(c) == IF c.kind = "date" THEN Val(c.v) ELSE NA

\* A status cell is [na, s], s the characters of the text.
NoStatus == [na |-> TRUE, s |-> <<>>]

Status(s) == [na |-> FALSE, s |-> s]

\* str.lower() on one character, for the letters the statuses use.
LowerChar(c) ==
    CASE c = "D" -> "d" [] c = "E" -> "e" [] c = "L" -> "l" [] c = "A" -> "a"
      [] c = "Y" -> "y" [] c = "O" -> "o" [] c = "N" -> "n" [] c = "T" -> "t"
      [] c = "I" -> "i" [] c = "M" -> "m"
      [] OTHER -> c

\* line 107: .str.lower() on one cell; a missing status stays missing.
Lower(st) == IF st.na THEN st ELSE Status([i \in 1..Len(st.s) |-> LowerChar(st.s[i])])

Delayed == <<"d", "e", "l", "a", "y", "e", "d">>

\* Mutant of OnTimeFlag: the status compared without lower-casing it.
OnTimeFlagCaseSensitive(st) == IF ~st.na /\ st.s = Delayed THEN 0 ELSE 1

\* lines 107-108: np.where(delivery_status_lower == "delayed", 0, 1)
OnTimeFlag(st) == IF ~Lower(st).na /\ Lower(st).s = Delayed THEN 0 ELSE 1

\* line 109
DelayFlag(on_time_flag) == 1 - on_time_flag

\* line 114: (delivery_date - ship_date).dt.days, NaN when a date is NaT.
DaysBetween(later, earlier) ==
    IF later.na \/ earlier.na THEN NA ELSE Val(later.v - earlier.v)

\* lines 103-110 on one row: the dates parsed, the two flags added.
CleanRow(r) ==
    [order_date |-> ToDatetime(r.order_date),
     ship_date |-> ToDatetime(r.ship_date),
     delivery_date |-> ToDatetime(r.delivery_date),
     delivery_status |-> r.delivery_status,
     delivery_days |-> r.delivery_days,
     on_time_flag |-> OnTimeFlag(r.delivery_status),
     delay_flag |-> DelayFlag(OnTimeFlag(r.delivery_status))]

\* df[name] = ... : a new column goes to the end, an existing one keeps its place.
WithColumn(columns, name) ==
    IF Col(name) \in Range(columns) THEN columns ELSE Append(columns, Col(name))

\* line 113: "delivery_days" not in df.columns or df["delivery_days"].isna().all()
DeliveryDaysMissing(columns, rows) ==
    \/ Col("delivery_days") \notin Range(columns)
    \/ \A i \in 1..Len(rows) : rows[i].delivery_days.na

\* lines 112-114
RecalcDeliveryDays(columns, rows) ==
    IF DeliveryDaysMissing(columns, rows)
    THEN [i \in 1..Len(rows) |->
            [rows[i] EXCEPT !.delivery_days = DaysBetween(rows[i].delivery_date, rows[i].ship_date)]]
    ELSE rows

\* The columns clean_orders_data reads without testing for them: df[col] at
\* line 104 and df["delivery_status"] at line 107 raise KeyError when absent.
CleanReads == {"order_date", "ship_date", "delivery_date", "delivery_status"}

\* The whole function: [err, df], err = "KeyError" when it raised (no table
\* is returned then).
CleanOrdersData(df_raw) ==
    LET columns == StandardizeColumns(df_raw.columns)
        rows == [i \in 1..Len(df_raw.rows) |-> CleanRow(df_raw.rows[i])]
        flagged == WithColumn(WithColumn(columns, "on_time_flag"), "delay_flag")
    IN
    IF \E c \in CleanReads : Col(c) \notin Range(columns)
    THEN [err |-> "KeyError", df |-> [columns |-> <<>>, rows |-> <<>>]]
    ELSE [err |-> "none",
          df |-> AdjustShippingDates(
                     [columns |-> WithColumn(flagged, "delivery_days"),
                      rows |-> RecalcDeliveryDays(flagged, rows)])]

----------------------------------------------------------------------------
(* compute_kpis, lines 125-147, and create_visuals, lines 176-214 *)

\* Mutant of OrdersByCategory: the test copied from the region KPI.
OrdersByCategoryOnRegion(df) ==
    IF HasColumn(df, "customer_region") THEN {"orders_by_category"} ELSE {}

\* lines 131-134
DelaysByShippingMode(df) ==
    IF HasColumn(df, "shipping_mode") THEN {"delays_by_shipping_mode"} ELSE {}

\* lines 136-137
OrdersByCategory(df) ==
    IF HasColumn(df, "product_category") THEN {"orders_by_category"} ELSE {}

\* lines 139-140
DeliveriesByRegion(df) ==
    IF HasColumn(df, "customer_region") THEN {"deliveries_by_region"} ELSE {}

\* lines 142-145
DeliveriesOverTime(df) ==
    IF HasColumn(df, "order_date") THEN {"deliveries_over_time"} ELSE {}

\* The columns compute_kpis reads without testing for them: on_time_flag
\* (line 128), delivery_days (line 129), delay_flag inside the shipping_mode
\* branch (line 133), order_id inside the order_date branch (line 145).
KpiReadsAbsentColumn(df) ==
    \/ ~HasColumn(df, "on_time_flag")
    \/ ~HasColumn(df, "delivery_days")
    \/ HasColumn(df, "shipping_mode") /\ ~HasColumn(df, "delay_flag")
    \/ HasColumn(df, "order_date") /\ ~HasColumn(df, "order_id")

\* The whole function: [err, keys], keys the keys of the mapping returned.
ComputeKpis(df) ==
    IF KpiReadsAbsentColumn(df)
    THEN [err |-> "KeyError", keys |-> {}]
    ELSE [err |-> "none",
          keys |-> {"overall_on_time_pct", "avg_delivery_days"}
                     \cup DelaysByShippingMode(df) \cup OrdersByCategory(df)
                     \cup DeliveriesByRegion(df) \cup DeliveriesOverTime(df)]

\* create_visuals: the KPI each "if" tests, in the order of the code, and
\* the file its plot_bar / plot_line call saves.
ChartOrder ==
    <<"deliveries_by_region", "delays_by_shipping_mode", "deliveries_over_time",
      "orders_by_category">>

ChartFile(kpi) ==
    CASE kpi = "deliveries_by_region" -> "deliveries_by_region.png"
      [] kpi = "delays_by_shipping_mode" -> "delays_by_shipping_mode.png"
      [] kpi = "deliveries_over_time" -> "deliveries_over_time.png"
      [] kpi = "orders_by_category" -> "orders_by_category.png"

\* The files create_visuals has saved once its first n "if" statements ran.
ChartsAfter(keys, n) == {ChartFile(ChartOrder[i]) : i \in {j \in 1..n : ChartOrder[j] \in keys}}

----------------------------------------------------------------------------
(* Inputs of main: the tables load_orders can return *)

RawNames ==
    <<"Order_ID", "Customer_Region", "Product_Category", "Order_Date", "Ship_Date",
      "Delivery_Date", "Shipping_Mode", "Shipping_Cost", "Delivery_Status", "Delivery_Days">>

\* Spellings of a raw header in the file: exact, padded on either side, or
\* already in its canonical form.
Spell(name, style) ==
    CASE style = "exact" -> <<name>>
      [] style = "lead" -> <<" ", name>>
      [] style = "trail" -> <<name, " ", " ">>
      [] style = "both" -> <<"\t", " ", name, " ">>
      [] style = "canonical" -> <<rename_map[name]>>

Styles == {"exact", "lead", "trail", "both", "canonical"}

\* Headers that are no key of rename_map: another name, a name with a space
\* inside, a name in another case.
UnknownHeaders == {<<"Notes">>, <<" ", "Order", " ", "ID", " ">>, <<"ORDER_ID">>}

\* Header lists: every column, all in one spelling but one column in another,
\* with or without one unknown header in front.
SpelledHeaders ==
    LET base == {[i \in 1..Len(RawNames) |->
                     Spell(RawNames[i], IF i = odd THEN s2 ELSE s1)] :
                     s1 \in Styles, s2 \in Styles, odd \in 1..Len(RawNames)}
    IN base \cup {<<u>> \o b : u \in UnknownHeaders, b \in base}

RECURSIVE Keep(_, _)
Keep(names, present) ==
    IF names = <<>> THEN <<>>
    ELSE (IF Head(names) \in present THEN <<<<Head(names)>>>> ELSE <<>>)
            \o Keep(Tail(names), present)

\* Header lists: any subset of the columns, spelled exactly.
SubsetHeaders == {Keep(RawNames, present) : present \in SUBSET Range(RawNames)}

\* Rows that differ in their status.
StatusTexts ==
    {<<"D", "e", "l", "a", "y", "e", "d">>, <<"d", "e", "l", "a", "y", "e", "d">>,
     <<"D", "E", "L", "A", "Y", "E", "D">>, <<"O", "n", " ", "T", "i", "m", "e">>,
     <<"d", "e", "l", "a", "y", "e", "d", " ">>}

StatusRows ==
    {[order_date |-> RawDate(0), ship_date |-> RawDate(2), delivery_date |-> RawDate(6),
      delivery_status |-> st, delivery_days |-> Val(4)] :
        st \in {NoStatus} \cup {Status(t) : t \in StatusTexts}}

\* Rows that differ in their dates and delivery_days.
DateRows ==
    {[order_date |-> o, ship_date |-> p, delivery_date |-> d,
      delivery_status |-> Status(<<"O", "n", " ", "T", "i", "m", "e">>), delivery_days |-> n] :
        o \in {RawJunk, RawDate(0)}, p \in {RawEmpty, RawDate(2)},
        d \in {RawEmpty, RawDate(-2), RawDate(6)}, n \in {NA, Val(9)}}

\* Two plain rows for the tables whose headers vary.
PlainRows ==
    {[order_date |-> RawDate(0), ship_date |-> RawDate(2), delivery_date |-> RawDate(6),
      delivery_status |-> Status(<<"O", "n", " ", "T", "i", "m", "e">>), delivery_days |-> Val(4)],
     [order_date |-> RawDate(0), ship_date |-> RawEmpty, delivery_date |-> RawDate(-2),
      delivery_status |-> Status(<<"D", "e", "l", "a", "y", "e", "d">>), delivery_days |-> NA]}

\* The cells of a row of a table with the raw headers columns: the cells of
\* the modelled columns the table lacks are empty.
BlankRaw(r, columns) ==
    LET has(name) == Col(name) \in Range(StandardizeColumns(columns)) IN
    [order_date |-> IF has("order_date") THEN r.order_date ELSE RawEmpty,
     ship_date |-> IF has("ship_date") THEN r.ship_date ELSE RawEmpty,
     delivery_date |-> IF has("delivery_date") THEN r.delivery_date ELSE RawEmpty,
     delivery_status |-> IF has("delivery_status") THEN r.delivery_status ELSE NoStatus,
     delivery_days |-> IF has("delivery_days") THEN r.delivery_days ELSE NA]

\* The loaded tables: varied headers over a plain row or no row, and the exact
\* headers over up to MaxLoadedRows varied rows.
RawTables ==
    {[columns |-> h, rows |-> [i \in 1..Len(rows) |-> BlankRaw(rows[i], h)]] :
        h \in SpelledHeaders \cup SubsetHeaders, rows \in RowSeqs(PlainRows, 1)}
    \cup {[columns |-> Keep(RawNames, Range(RawNames)), rows |-> rows] :
            rows \in RowSeqs(StatusRows \cup DateRows, MaxLoadedRows)}

----------------------------------------------------------------------------
(* main, lines 220-238: one run of the pipeline *)

Init ==
    /\ pc = "start"
    /\ df_orders_raw = EmptyTable
    /\ df_orders = EmptyTable
    /\ saved = FALSE
    /\ kpis = {}
    /\ visuals = {}
    /\ err = "none"
    /\ adj_in = EmptyTable
    /\ adj_out = EmptyTable
    /\ total_cycle = NoSeries
    /\ dispatch_delay_days = NoSeries

\* line 222: load_orders() returns the table of the file, or read_csv raises
\* (no file), which ends the run.
LoadOrders ==
    /\ pc = "start"
    /\ \/ \E t \in RawTables :
             /\ df_orders_raw' = t
             /\ pc' = "loaded"
             /\ err' = err
       \/ /\ df_orders_raw' = df_orders_raw
          /\ pc' = "failed"
          /\ err' = "FileNotFoundError"
    /\ UNCHANGED <<df_orders, saved, kpis, visuals, adj_in, adj_out, total_cycle,
                   dispatch_delay_days>>

\* line 225: df_orders = clean_orders_data(df_orders_raw); an exception it
\* raises ends the run.
CleanOrders ==
    /\ pc = "loaded"
    /\ LET r == CleanOrdersData(df_orders_raw) IN
          /\ df_orders' = r.df
          /\ err' = r.err
          /\ pc' = IF r.err = "none" THEN "cleaned" ELSE "failed"
    /\ UNCHANGED <<df_orders_raw, saved, kpis, visuals, adj_in, adj_out, total_cycle,
                   dispatch_delay_days>>

\* line 229: df_orders.to_csv(processed_path); an unwritable path raises.
SaveCleaned ==
    /\ pc = "cleaned"
    /\ \/ saved' = TRUE /\ pc' = "saved" /\ err' = err
       \/ saved' = saved /\ pc' = "failed" /\ err' = "OSError"
    /\ UNCHANGED <<df_orders_raw, df_orders, kpis, visuals, adj_in, adj_out, total_cycle,
                   dispatch_delay_days>>

\* line 233: kpis = compute_kpis(df_orders)
ComputeKpisStep ==
    /\ pc = "saved"
    /\ LET r == ComputeKpis(df_orders) IN
          /\ kpis' = r.keys
          /\ err' = r.err
          /\ pc' = IF r.err = "none" THEN "computed" ELSE "failed"
    /\ UNCHANGED <<df_orders_raw, df_orders, saved, visuals, adj_in, adj_out, total_cycle,
                   dispatch_delay_days>>

\* line 236: create_visuals(kpis).  Its four "if" statements run in order;
\* a plot whose rendering or savefig raises ends the run after the files
\* saved so far (n of the four statements completed).
CreateVisuals ==
    /\ pc = "computed"
    /\ \E n \in 0..Len(ChartOrder) :
          /\ n < Len(ChartOrder) => ChartOrder[n + 1] \in kpis
          /\ visuals' = visuals \cup ChartsAfter(kpis, n)
          /\ pc' = IF n = Len(ChartOrder) THEN "done" ELSE "failed"
          /\ err' = IF n = Len(ChartOrder) THEN err ELSE "PlotError"
    /\ UNCHANGED <<df_orders_raw, df_orders, saved, kpis, adj_in, adj_out, total_cycle,
                   dispatch_delay_days>>

Next == LoadOrders \/ CleanOrders \/ SaveCleaned \/ ComputeKpisStep \/ CreateVisuals

Spec == Init /\ [][Next]_vars

----------------------------------------------------------------------------
(* Properties of adjust_shipping_dates, checked under SpecAdjust *)

\* An eligible row: order_date and delivery_date both present.
Eligible(r) == ~r.order_date.na /\ ~r.delivery_date.na

EligibleRows == {i \in 1..Len(adj_in.rows) : Eligible(adj_in.rows[i])}

Returned == pc = "adjust_return"

\* Raw cycle of input row i, in whole days.
Cycle(i) == adj_in.rows[i].delivery_date.v - adj_in.rows[i].order_date.v

NonNegCycles == {i \in EligibleRows : Cycle(i) >= 0}

\* x (doubled) is a median of the non-negative raw cycles: at least half of
\* them are <= x and at least half are >= x, and x is the midpoint of the
\* two values that enclose it.
IsMedian2(x) ==
    \E i, j \in NonNegCycles :
        /\ x = Cycle(i) + Cycle(j)
        /\ Cycle(i) <= Cycle(j)
        /\ 2 * Cardinality({k \in NonNegCycles : Cycle(k) <= Cycle(i)}) >= Cardinality(NonNegCycles)
        /\ 2 * Cardinality({k \in NonNegCycles : Cycle(k) >= Cycle(j)}) >= Cardinality(NonNegCycles)
        /\ \A k \in NonNegCycles : Cycle(k) <= Cycle(i) \/ Cycle(k) >= Cycle(j)

\* The bucket rule of the claim on a cycle x given doubled: the class of x.
BucketRule(x, class) ==
    \/ x <= 8 /\ class = 0
    \/ 8 < x /\ x <= 16 /\ class = 1
    \/ x > 16 /\ class = 3

\* C1: for every eligible row the assigned dispatch delay class is the bucket
\* rule (cycle <= 4 -> 0, 4 < cycle <= 8 -> 1, cycle > 8 -> 3) applied to the
\* imputed cycle: the raw cycle when it is non-negative, otherwise the median
\* of the non-negative raw cycles of the eligible subset.
C1_DelayClassFollowsBucketRule ==
    Returned =>
        \A i \in EligibleRows :
            IF Cycle(i) >= 0
            THEN BucketRule(2 * Cycle(i), dispatch_delay_days[i])
            ELSE \E x \in 0..40 : IsMedian2(x) /\ BucketRule(x, dispatch_delay_days[i])

\* C2: the total_cycle_days fed into the bucketing step is a number >= 0 for
\* every eligible row, also when every eligible row has a negative raw cycle,
\* so the default branch of the selection is never taken.
C2_BucketedCycleNonNegative ==
    Returned =>
        \A i \in EligibleRows :
            /\ i \in DOMAIN total_cycle
            /\ ~total_cycle[i].na
            /\ total_cycle[i].v >= 0

\* C3: after the call, every eligible row has ship_date >= order_date, and
\* ship_date - order_date is 0, 1 or 3 days.
C3_ShipDateNotBeforeOrderDate ==
    Returned /\ DatesPresent(adj_in) =>
        \A i \in EligibleRows :
            /\ ~adj_out.rows[i].ship_date.na
            /\ adj_out.rows[i].ship_date.v >= adj_in.rows[i].order_date.v
            /\ adj_out.rows[i].ship_date.v - adj_in.rows[i].order_date.v \in {0, 1, 3}

\* Witness of C3: a call returned on a table whose eligible rows got the
\* three delays 0, 1 and 3.
C3_Witness ==
    /\ Returned
    /\ \A d \in {0, 1, 3} :
          \E i \in EligibleRows :
              adj_out.rows[i].ship_date.v - adj_in.rows[i].order_date.v = d

\* C4: the call leaves every ineligible row unchanged, changes no column
\* other than ship_date and delivery_days in any row, and adds or drops no
\* row or column; when no row is eligible, or order_date or delivery_date is
\* absent, the returned table equals the argument.
C4_IneligibleRowsUnchanged ==
    Returned =>
        /\ adj_out.columns = adj_in.columns
        /\ Len(adj_out.rows) = Len(adj_in.rows)
        /\ \A i \in 1..Len(adj_in.rows) :
              /\ adj_out.rows[i].order_date = adj_in.rows[i].order_date
              /\ adj_out.rows[i].delivery_date = adj_in.rows[i].delivery_date
              /\ ~Eligible(adj_in.rows[i]) =>
                    /\ adj_out.rows[i].ship_date = adj_in.rows[i].ship_date
                    /\ adj_out.rows[i].delivery_days = adj_in.rows[i].delivery_days
        /\ (EligibleRows = {} \/ ~DatesPresent(adj_in)) => adj_out = adj_in

\* Witness of C4: a call returned on a table with both date columns in which
\* an eligible row was rewritten, and a row without order_date and a row
\* without delivery_date kept the ship_date and delivery_days they had.
C4_Witness ==
    /\ Returned
    /\ DatesPresent(adj_in)
    /\ \E i \in EligibleRows : adj_out.rows[i] # adj_in.rows[i]
    /\ \E i \in 1..Len(adj_in.rows) :
          /\ adj_in.rows[i].order_date.na
          /\ ~adj_in.rows[i].delivery_date.na
          /\ ~adj_in.rows[i].ship_date.na
          /\ adj_out.rows[i] = adj_in.rows[i]
    /\ \E i \in 1..Len(adj_in.rows) :
          /\ ~adj_in.rows[i].order_date.na
          /\ adj_in.rows[i].delivery_date.na
          /\ ~adj_in.rows[i].delivery_days.na
          /\ adj_out.rows[i] = adj_in.rows[i]

\* The three-row scenario: order 2024-01-01 (day 0) for all, deliveries
\* 2024-01-03, 2024-01-07 and 2023-12-30 (days 2, 6 and -2).
IsScenario ==
    /\ DatesPresent(adj_in)
    /\ Len(adj_in.rows) = 3
    /\ \A i \in 1..3 : adj_in.rows[i].order_date = Val(0)
    /\ adj_in.rows[1].delivery_date = Val(2)
    /\ adj_in.rows[2].delivery_date = Val(6)
    /\ adj_in.rows[3].delivery_date = Val(-2)

\* C7: after the call, delivery_days of every eligible row is delivery_date
\* minus the corrected ship_date, which is order_date plus the delay class
\* of the row's imputed cycle; in the three-row scenario the rows end with
\* ship_date/delivery_days 2024-01-01/2, 2024-01-02/5 and 2024-01-01/-2.
C7_DeliveryDaysFromCorrectedShipDate ==
    Returned =>
        /\ \A i \in EligibleRows :
              /\ adj_out.rows[i].ship_date =
                    Val(adj_in.rows[i].order_date.v + dispatch_delay_days[i])
              /\ adj_out.rows[i].delivery_days =
                    Val(adj_in.rows[i].delivery_date.v
                          - (adj_in.rows[i].order_date.v + dispatch_delay_days[i]))
        /\ IsScenario =>
              /\ total_cycle[3] = Val(2 * 4)
              /\ adj_out.rows[1].ship_date = Val(0) /\ adj_out.rows[1].delivery_days = Val(2)
              /\ adj_out.rows[2].ship_date = Val(1) /\ adj_out.rows[2].delivery_days = Val(5)
              /\ adj_out.rows[3].ship_date = Val(0) /\ adj_out.rows[3].delivery_days = Val(-2)

\* Witness of C7: the call returned on the three-row scenario.
C7_Witness == Returned /\ IsScenario

\* C10: after the call, an eligible row with a non-negative raw cycle has
\* delivery_days >= 0 (the cycle itself up to 4, cycle - 1 >= 4 for 5..8,
\* cycle - 3 >= 6 above 8), and an eligible row with a negative raw cycle has
\* delivery_days < 0.
C10_DeliveryDaysSign ==
    Returned =>
        \A i \in EligibleRows :
            LET dd == adj_out.rows[i].delivery_days IN
            /\ ~dd.na
            /\ Cycle(i) >= 0 => dd.v >= 0
            /\ (0 <= Cycle(i) /\ Cycle(i) <= 4) => dd.v = Cycle(i)
            /\ (5 <= Cycle(i) /\ Cycle(i) <= 8) => dd.v = Cycle(i) - 1 /\ dd.v >= 4
            /\ Cycle(i) > 8 => dd.v = Cycle(i) - 3 /\ dd.v >= 6
            /\ Cycle(i) < 0 => dd.v < 0

\* Witness of C10: a call returned on a table holding a row of cycle above 8
\* (delivery_days = cycle - 3), a row of cycle 5..8 (cycle - 1) and a row of
\* negative cycle that ended with negative delivery_days.
C10_Witness ==
    /\ Returned
    /\ \E i \in EligibleRows : Cycle(i) > 8 /\ adj_out.rows[i].delivery_days.v = Cycle(i) - 3
    /\ \E i \in EligibleRows : Cycle(i) \in 5..8 /\ adj_out.rows[i].delivery_days.v = Cycle(i) - 1
    /\ \E i \in EligibleRows : Cycle(i) < 0 /\ adj_out.rows[i].delivery_days.v < 0

----------------------------------------------------------------------------
(* Properties of the run of main, checked under Spec *)

\* clean_orders_data returned a table.
Cleaned == pc \in {"cleaned", "saved", "computed", "done"} \/ (pc = "failed" /\ saved)

\* C5: compute_kpis and clean_orders_data never fail because a column is
\* absent: no run ends in the KeyError of a column lookup, whatever columns
\* the loaded table has.
C5_NoFailureOnAbsentColumn == err # "KeyError"

\* The grouping column of each chart's KPI.
GroupingColumn(kpi) ==
    CASE kpi = "deliveries_by_region" -> "customer_region"
      [] kpi = "delays_by_shipping_mode" -> "shipping_mode"
      [] kpi = "deliveries_over_time" -> "order_date"
      [] kpi = "orders_by_category" -> "product_category"

\* The table has a column that is `name` once trimmed and renamed; stated on
\* the loaded file's headers.
LoadedHas(raw, name) ==
    \E i \in 1..Len(df_orders_raw.columns) :
        \E k \in 1..Len(df_orders_raw.columns[i]) :
            /\ df_orders_raw.columns[i][k] \in {raw, name}
            /\ \A j \in 1..Len(df_orders_raw.columns[i]) :
                  j # k => df_orders_raw.columns[i][j] \in {" ", "\t"}

\* C6: in any run a chart file is written only if compute_kpis produced the
\* KPI of the same name, and that KPI is produced only if its grouping column
\* is present; for a cleaned table lacking product_category there is no
\* orders_by_category key and no orders_by_category.png.
C6_ChartOnlyForComputedKpi ==
    /\ \A k \in Range(ChartOrder) :
          /\ ChartFile(k) \in visuals => k \in kpis
          /\ k \in kpis => HasColumn(df_orders, GroupingColumn(k))
    /\ ~LoadedHas("Product_Category", "product_category") =>
          /\ "orders_by_category" \notin kpis
          /\ "orders_by_category.png" \notin visuals

\* Witness of C6: a run that ended on a table lacking product_category, with
\* the three other charts written and orders_by_category.png not.
C6_Witness ==
    /\ pc = "done"
    /\ ~HasColumn(df_orders, "product_category")
    /\ visuals = {"deliveries_by_region.png", "delays_by_shipping_mode.png",
                  "deliveries_over_time.png"}

\* The status text is "delayed" up to letter case.
IsDelayedIgnoringCase(st) ==
    /\ ~st.na
    /\ Len(st.s) = 7
    /\ st.s[1] \in {"d", "D"} /\ st.s[2] \in {"e", "E"} /\ st.s[3] \in {"l", "L"}
    /\ st.s[4] \in {"a", "A"} /\ st.s[5] \in {"y", "Y"} /\ st.s[6] \in {"e", "E"}
    /\ st.s[7] \in {"d", "D"}

\* C8: after clean_orders_data every row has on_time_flag and delay_flag in
\* {0,1} with sum 1, and on_time_flag is 0 exactly when the row's
\* delivery_status is "delayed" ignoring letter case (1 for any other status
\* and for a missing one).
C8_FlagsComplementary ==
    Cleaned =>
        /\ Len(df_orders.rows) = Len(df_orders_raw.rows)
        /\ \A i \in 1..Len(df_orders.rows) :
              LET r == df_orders.rows[i] IN
              /\ r.on_time_flag \in {0, 1}
              /\ r.delay_flag \in {0, 1}
              /\ r.on_time_flag + r.delay_flag = 1
              /\ r.on_time_flag = 0 <=> IsDelayedIgnoringCase(df_orders_raw.rows[i].delivery_status)

\* Witness of C8: a cleaned table with a row of status "Delayed" or "DELAYED"
\* flagged 0/1 and a row of missing status flagged 1/0.
C8_Witness ==
    /\ Cleaned
    /\ \E i \in 1..Len(df_orders.rows) :
          /\ df_orders_raw.rows[i].delivery_status.s \in
                {<<"D", "e", "l", "a", "y", "e", "d">>, <<"D", "E", "L", "A", "Y", "E", "D">>}
          /\ df_orders.rows[i].on_time_flag = 0
          /\ df_orders.rows[i].delay_flag = 1
    /\ \E i \in 1..Len(df_orders.rows) :
          /\ df_orders_raw.rows[i].delivery_status.na
          /\ df_orders.rows[i].on_time_flag = 1
          /\ df_orders.rows[i].delay_flag = 0

\* The header has no whitespace at either end.
Trimmed(h) == h = <<>> \/ (h[1] \notin {" ", "\t"} /\ h[Len(h)] \notin {" ", "\t"})

\* C9: column standardization is idempotent: on every loaded header list,
\* standardizing twice gives what standardizing once gives; the headers of a
\* cleaned table (already standardized) are not changed by it; and a header
\* that is no key of the lookup passes through unchanged apart from trimming.
C9_StandardizeIdempotent ==
    LET once == StandardizeColumns(df_orders_raw.columns) IN
    /\ StandardizeColumns(once) = once
    /\ Cleaned =>
          /\ SubSeq(df_orders.columns, 1, Len(once)) = once
          /\ StandardizeColumns(df_orders.columns) = df_orders.columns
    /\ \A i \in 1..Len(once) :
          LET h == df_orders_raw.columns[i] IN
          /\ Trimmed(once[i])
          /\ \E a, b \in 0..Len(h) :
                /\ a + b <= Len(h)
                /\ \A j \in (1..a) \cup ((Len(h) - b + 1)..Len(h)) : h[j] \in {" ", "\t"}
                /\ LET core == SubSeq(h, a + 1, Len(h) - b) IN
                   IF Len(core) = 1 /\ core[1] \in Range(RawNames)
                   THEN Len(once[i]) = 1 /\ once[i][1] \notin Range(RawNames)
                   ELSE once[i] = core

\* Witness of C9: a cleaned table whose file had a padded known header, an
\* unknown header with whitespace around and inside it, and a header already
\* in canonical form.
C9_Witness ==
    /\ Cleaned
    /\ \E i \in 1..Len(df_orders_raw.columns) :
          /\ df_orders_raw.columns[i] = <<"\t", " ", "Order_Date", " ">>
          /\ df_orders.columns[i] = <<"order_date">>
    /\ \E i \in 1..Len(df_orders_raw.columns) :
          /\ df_orders_raw.columns[i] = <<" ", "Order", " ", "ID", " ">>
          /\ df_orders.columns[i] = <<"Order", " ", "ID">>
    /\ \E i \in 1..Len(df_orders_raw.columns) :
          /\ df_orders_raw.columns[i] = <<"ship_date">>
          /\ df_orders.columns[i] = <<"ship_date">>

====
